---- MODULE Spec2Model ----
(***************************************************************************)
(* A model of generate_acf_colab.py: the acquisition-and-execution         *)
(* pipeline around SKSAppManifestGenerator.  One run of main() is a        *)
(* sequential program; every action below is one step of it, named after   *)
(* the function it belongs to.  The environment (search path, network,     *)
(* archive contents, the external tool) is nondeterministic: its answers   *)
(* are drawn with \E where the code asks for them.                         *)
(***************************************************************************)
EXTENDS Naturals, Integers, Sequences, FiniteSets, TLC

(***************************************************************************)
(* Bounds of the model.                                                    *)
(***************************************************************************)
\* how many runs of main() one behaviour may hold (the files on disk and the
\* search path persist from one run to the next)
MaxRuns == 2
\* the functions called on their own: the longest identifier text, the longest
\* identifier sequence, and the most files one directory holds
MaxLen == 3
MaxIds == 2
MaxFiles == 2

(***************************************************************************)
(* Configuration (lines 25-31) and fixed paths.                            *)
(***************************************************************************)
None == "None"
TOOL_DIR == "./tools/SKSAppManifestGenerator"
TOOL_NAME == "SKSAppManifestGenerator_x64.exe"
DEFAULT_TOOL_PATH == "./tools/SKSAppManifestGenerator/SKSAppManifestGenerator_x64.exe"
PRIMARY_URL == "PRIMARY_URL"
FALLBACK_URL == "FALLBACK_URL"
temp_zip == "/tmp/sks_generator.zip"
temp_extract == "/tmp/sks_generator_extract"

\* a --GeneratorPath outside the default tools directory, and its directory
CUSTOM_TOOL_PATH == "/opt/sks/gen.exe"
CUSTOM_DIR == "/opt/sks"
\* the directory the process is started in, and a --WorkingDirectory
START_DIR == "start"
WORK_DIR == "work"

\* os.path.dirname of the two tool paths of the model
dirname(path) == IF path = DEFAULT_TOOL_PATH THEN TOOL_DIR ELSE CUSTOM_DIR

Files == {DEFAULT_TOOL_PATH, CUSTOM_TOOL_PATH, temp_zip}
\* what a path holds: nothing, a zero-length file, a file cut short, a whole file
Contents == {"absent", "empty", "partial", "full"}
Platforms == {"Windows", "Linux"}
Candidates == <<"wine", "wine64">>
CandidateSet == {"wine", "wine64"}

(***************************************************************************)
(* Identifier Normalizer (lines 236-272).  A text is a sequence of         *)
(* characters; a character is a one-character string, or the name of a     *)
(* non-Latin decimal digit.                                                *)
(***************************************************************************)
AsciiDigits == <<"0", "1", "2", "3", "4", "5", "6", "7", "8", "9">>
IsAsciiDigit(ch) == \E i \in 1..10 : AsciiDigits[i] = ch
\* decimal digits of another script, with their numeric value
ForeignDigits == {<<"ARABIC-INDIC_3", 3>>, <<"DEVANAGARI_7", 7>>}
Whitespace == {" ", "\t", "\n"}

\* unicodedata.decimal(ch): the value, or -1 where Python raises ValueError
unicodedata_decimal(ch) ==
    IF IsAsciiDigit(ch) THEN (CHOOSE i \in 1..10 : AsciiDigits[i] = ch) - 1
    ELSE IF \E p \in ForeignDigits : p[1] = ch
         THEN (CHOOSE p \in ForeignDigits : p[1] = ch)[2]
         ELSE -1

KeepText(text) == text
convert_to_ascii_digits(text) ==
    [i \in 1..Len(text) |->
        IF unicodedata_decimal(text[i]) >= 0
        THEN AsciiDigits[unicodedata_decimal(text[i]) + 1]
        ELSE text[i]]

\* the scan of lines 255-265: tokens so far, and the token being built
RECURSIVE ScanTokens(_, _, _)
ScanTokens(text, tokens, current) ==
    IF text = <<>>
    THEN IF current # "" THEN Append(tokens, current) ELSE tokens
    ELSE IF IsAsciiDigit(Head(text))
         THEN ScanTokens(Tail(text), tokens, current \o Head(text))
         ELSE IF current # ""
              THEN ScanTokens(Tail(text), Append(tokens, current), "")
              ELSE ScanTokens(Tail(text), tokens, current)

extract_digits_only(text) ==
    IF text = <<>> THEN <<>>
    ELSE ScanTokens(convert_to_ascii_digits(text), <<>>, "")

\* str.strip() leaves nothing
StripsToEmpty(text) == \A i \in 1..Len(text) : text[i] \in Whitespace

validate_app_ids(app_ids_input) ==
    IF app_ids_input = <<>> \/ StripsToEmpty(app_ids_input)
    THEN <<>>
    ELSE extract_digits_only(app_ids_input)

\* identifier texts: one that holds two identifiers, and two that hold none
ValidText == <<"7", "ARABIC-INDIC_3", ",", " ", "5">>
BlankText == <<" ">>
JunkText == <<"a", ",">>
\* what is typed at the prompt of line 432
InputTexts == {<<>>, BlankText, JunkText, ValidText}


(***************************************************************************)
(* State.                                                                  *)
(***************************************************************************)
VARIABLES
    platform,    \* platform.system()
    onPath,      \* the compatibility-layer commands shutil.which finds
    fs,          \* what each path of Files holds
    dirs,        \* the directories that exist, among those the code creates or needs
    extracted,   \* temp_extract: "absent", "noexe" (no TOOL_NAME in its tree), "exe"
    cwd,         \* the process's current working directory
    TOOL_PATH,   \* the global TOOL_PATH (line 30; overridden at line 397)
    args,        \* parse_args(): generator_path, debug, working_dir, app_id
    pc,          \* where the run is
    runs,        \* runs of main() started so far
    tool_path,   \* main's tool_path: "unset" until setup_tool returned
    app_ids,     \* main's app_ids
    debug,       \* main's debug
    working_dir, \* main's working_dir
    su,          \* setup_tool's progress and the disk as it found it
    dl,          \* the current (or last) download_file call
    ew,          \* the last ensure_wine call
    gen,         \* generate_acf_files' locals
    launches,    \* the command lines launched by this run, with their outcomes
    found_files, \* the verification scan's result
    acts,        \* what this run has done so far (kinds of side effect)
    exitStatus,  \* the process exit status; NoExit while running
    exitAt       \* the place the run ended at

envVars == <<platform, onPath, fs, dirs, extracted>>
mainVars == <<TOOL_PATH, args, runs, tool_path, app_ids, debug, working_dir>>
histVars == <<launches, found_files, acts>>
exitVars == <<exitStatus, exitAt>>
vars == <<platform, onPath, fs, dirs, extracted, cwd, TOOL_PATH, args, pc, runs,
          tool_path, app_ids, debug, working_dir, su, dl, ew, gen, launches,
          found_files, acts, exitStatus, exitAt>>

\* no exit status yet: the process is running
NoExit == 0 - 1
Unset == "unset"

\* the command lines a run is given: none (the prompts are used), --AppId with
\* and without identifiers in it, and the other three options
Args(g, d, w, a) == [generator_path |-> g, debug |-> d, working_dir |-> w, app_id |-> a]
ArgSets ==
    { Args(None, FALSE, None, <<>>),
      Args(None, FALSE, None, ValidText),
      Args(None, FALSE, None, JunkText),
      Args(CUSTOM_TOOL_PATH, FALSE, None, <<>>),
      Args(CUSTOM_TOOL_PATH, TRUE, WORK_DIR, ValidText) }

NoDownload == [caller |-> None, url |-> None, dest |-> None, tried |-> <<>>,
               unavailable |-> {}, done |-> FALSE, ret |-> FALSE]
NoWine == [caller |-> None, path0 |-> {}, first |-> None, steps |-> <<>>,
           ret |-> None, raised |-> "none"]
NoExtract == [ok |-> FALSE, attempts |-> <<>>, raised |-> "none"]
NoSetup == [entered |-> FALSE, primary |-> "none",
            fallback |-> "none", fs0 |-> [f \in Files |-> "absent"],
            dirs0 |-> {}, extracted0 |-> "absent",
            archive |-> None, password |-> FALSE, extract |-> NoExtract]
NoGen == [cmd |-> <<>>, wine_cmd |-> None, original_dir |-> Unset, exc |-> "none",
          cand |-> 1, entered |-> FALSE, scanned |-> FALSE, walk |-> <<>>]

\* the process-local state at the start of a run
FreshRun ==
    /\ pc = "main"
    /\ cwd = START_DIR
    /\ TOOL_PATH = DEFAULT_TOOL_PATH
    /\ tool_path = Unset
    /\ app_ids = <<>>
    /\ debug = FALSE
    /\ working_dir = None
    /\ su = NoSetup
    /\ dl = NoDownload
    /\ ew = NoWine
    /\ gen = NoGen
    /\ launches = <<>>
    /\ found_files = <<>>
    /\ acts = {}
    /\ exitStatus = NoExit
    /\ exitAt = None

\* platform.system().lower()
Lower(system) == IF system = "Windows" THEN "windows" ELSE "linux"

\* the tool path this command line configures
ConfiguredPath(a) ==
    IF a.generator_path # None THEN a.generator_path ELSE DEFAULT_TOOL_PATH

Init ==
    /\ platform \in Platforms
    /\ onPath \in SUBSET CandidateSet
    \* the search path is never read on Windows
    /\ Lower(platform) = "windows" => onPath = {}
    /\ args \in ArgSets
    /\ \E tool \in {"absent", "full"} :
         fs = [f \in Files |-> IF f = ConfiguredPath(args) THEN tool ELSE "absent"]
    \* a file that exists lies in a directory that exists; the directory of a
    \* --GeneratorPath that names no file yet may or may not exist
    /\ dirs \in SUBSET {dirname(ConfiguredPath(args))}
    /\ fs[ConfiguredPath(args)] # "absent" => dirname(ConfiguredPath(args)) \in dirs
    /\ ConfiguredPath(args) = DEFAULT_TOOL_PATH /\ fs[DEFAULT_TOOL_PATH] = "absent"
          => dirs = {}
    /\ extracted = "absent"
    /\ runs = 1
    /\ FreshRun

(***************************************************************************)
(* Compatibility Layer Manager: ensure_wine (lines 166-190).               *)
(***************************************************************************)
\* the first of ('wine', 'wine64') that shutil.which finds on `path`
Wine64First(path) ==
    IF Candidates[2] \in path THEN Candidates[2]
    ELSE IF Candidates[1] \in path THEN Candidates[1]
    ELSE None
FirstCandidate(path) ==
    IF Candidates[1] \in path THEN Candidates[1]
    ELSE IF Candidates[2] \in path THEN Candidates[2]
    ELSE None

\* line 182: `except Exception` keeps a failed package-manager run inside
\* ensure_wine
InstallErrorLeaves(exc) == "none"

\* ensure_wine on `system` with `path` on the search path.  apt: shutil.which
\* finds apt-get; upd, inst: the two package-manager runs succeed (check=True
\* raises CalledProcessError when one does not); installed: what the install
\* run, failed or not, leaves on the search path.  The result names the steps
\* taken, what the first look at the search path found, the search path
\* afterwards, the value returned and the exception that leaves the function.
ensure_wine(system, path, apt, upd, inst, installed) ==
    IF Lower(system) = "windows"
    THEN [steps |-> <<>>, first |-> None, path |-> path, ret |-> None,
          raised |-> "none"]
    ELSE IF FirstCandidate(path) # None
    THEN [steps |-> <<"which">>, first |-> FirstCandidate(path), path |-> path,
          ret |-> FirstCandidate(path), raised |-> "none"]
    ELSE LET ran == IF ~apt THEN <<>>
                    ELSE IF ~upd THEN <<"update">>
                    ELSE <<"update", "install">>
             after == IF apt /\ upd THEN path \cup installed ELSE path
         IN [steps |-> <<"which">> \o ran \o <<"which">>,
             first |-> None,
             path |-> after,
             ret |-> FirstCandidate(after),
             raised |-> IF apt /\ (~upd \/ ~inst)
                        THEN InstallErrorLeaves("CalledProcessError") ELSE "none"]

\* the side effects a call of ensure_wine adds to the run's record
WineActs(r) == IF \E i \in 1..Len(r.steps) : r.steps[i] = "update" THEN {"pkg"} ELSE {}


(***************************************************************************)
(* Retriever: download_file (lines 70-139).                                *)
(***************************************************************************)
Strategies == <<"wget", "curl", "requests">>

\* whether the directory a destination lies in exists (/tmp always does)
DestDirExists(dest, ds) == dest = temp_zip \/ dirname(dest) \in ds

\* what a run of wget or curl can end as: subprocess.run raising, or an exit
\* code (rc) and the side-file '<dest>.part' it leaves (tmp)
DownloaderOutcomes(dirExists) ==
    IF dirExists
    THEN {[raised |-> TRUE, rc |-> 1, tmp |-> "absent"]}
         \cup [raised : {FALSE}, rc : {0}, tmp : {"absent", "empty", "full"}]
         \cup [raised : {FALSE}, rc : {1}, tmp : {"absent", "empty", "partial"}]
    ELSE {[raised |-> TRUE, rc |-> 1, tmp |-> "absent"],
          [raised |-> FALSE, rc |-> 1, tmp |-> "absent"]}

\* lines 83 and 105: returncode == 0, the side-file exists and is not empty
DownloaderSucceeded(o) ==
    o.rc = 0 /\ o.tmp # "absent" /\ o.tmp \notin {"empty"}

\* what the destination holds after a wget or curl run: os.replace on success
\* (lines 84, 106); on failure the side-file is removed (lines 87-91) and the
\* destination is left as it was
AfterDownloader(o, old) == IF DownloaderSucceeded(o) THEN o.tmp ELSE old

\* what follows a wget run that did not raise: return True, or go on to curl
AfterWgetAlwaysCurl(ok) == "dl_curl"
AfterWget(ok) == IF ok THEN "dl_done" ELSE "dl_curl"
\* what follows a curl run that did not raise: return True, or the built-in fetch
AfterCurl(ok) == IF ok THEN "dl_done" ELSE "dl_requests"

\* what the built-in streaming fetch can end as
RequestsOutcomes(dirExists) ==
    {"get_error"} \cup
    (IF dirExists
     THEN {"complete", "empty_body", "error_before_first_chunk", "error_after_chunks"}
     ELSE {"open_error"})

\* lines 118-139: the value returned
RequestsReturns(o) == o \in {"complete", "empty_body"}

\* lines 124-128: what the destination holds afterwards.  open(.., 'wb')
\* creates or truncates the file; each chunk is written as it arrives
AfterRequests(o, old) ==
    CASE o \in {"get_error", "open_error"} -> old
      [] o \in {"empty_body", "error_before_first_chunk"} -> "empty"
      [] o = "error_after_chunks" -> "partial"
      [] o = "complete" -> "full"

\* download_file(url, dest) is entered by `caller`
StartDownload(caller, url, dest) ==
    /\ dl' = [caller |-> caller, url |-> url, dest |-> dest, tried |-> <<>>,
              unavailable |-> {}, done |-> FALSE, ret |-> FALSE]
    /\ pc' = "dl_wget"

\* lines 74-92: strategy 1
DlWget ==
    /\ pc = "dl_wget"
    /\ \E found \in BOOLEAN :
         IF ~found
         THEN /\ dl' = [dl EXCEPT !.unavailable = @ \cup {"wget"}]
              /\ pc' = "dl_curl"
              /\ UNCHANGED <<fs, acts>>
         ELSE \E o \in DownloaderOutcomes(DestDirExists(dl.dest, dirs)) :
                /\ acts' = acts \cup {"download"}
                /\ IF o.raised
                   THEN \* line 137: the outer handler returns False
                        /\ dl' = [dl EXCEPT !.tried = Append(@, [s |-> "wget", ok |-> FALSE]),
                                            !.done = TRUE, !.ret = FALSE]
                        /\ pc' = "dl_done"
                        /\ UNCHANGED fs
                   ELSE /\ fs' = [fs EXCEPT ![dl.dest] = AfterDownloader(o, @)]
                        /\ pc' = AfterWget(DownloaderSucceeded(o))
                        /\ dl' = [dl EXCEPT
                                    !.tried = Append(@, [s |-> "wget", ok |-> DownloaderSucceeded(o)]),
                                    !.done = (AfterWget(DownloaderSucceeded(o)) = "dl_done"),
                                    !.ret = DownloaderSucceeded(o)]
    /\ UNCHANGED <<platform, onPath, dirs, extracted, cwd, mainVars, su, ew, gen,
                   launches, found_files, exitVars>>

\* lines 94-114: strategy 2
DlCurl ==
    /\ pc = "dl_curl"
    /\ \E found \in BOOLEAN :
         IF ~found
         THEN /\ dl' = [dl EXCEPT !.unavailable = @ \cup {"curl"}]
              /\ pc' = "dl_requests"
              /\ UNCHANGED <<fs, acts>>
         ELSE \E o \in DownloaderOutcomes(DestDirExists(dl.dest, dirs)) :
                /\ acts' = acts \cup {"download"}
                /\ IF o.raised
                   THEN /\ dl' = [dl EXCEPT !.tried = Append(@, [s |-> "curl", ok |-> FALSE]),
                                            !.done = TRUE, !.ret = FALSE]
                        /\ pc' = "dl_done"
                        /\ UNCHANGED fs
                   ELSE /\ fs' = [fs EXCEPT ![dl.dest] = AfterDownloader(o, @)]
                        /\ pc' = AfterCurl(DownloaderSucceeded(o))
                        /\ dl' = [dl EXCEPT
                                    !.tried = Append(@, [s |-> "curl", ok |-> DownloaderSucceeded(o)]),
                                    !.done = (AfterCurl(DownloaderSucceeded(o)) = "dl_done"),
                                    !.ret = DownloaderSucceeded(o)]
    /\ UNCHANGED <<platform, onPath, dirs, extracted, cwd, mainVars, su, ew, gen,
                   launches, found_files, exitVars>>

\* lines 116-139: strategy 3, and the handler of line 137
DlRequests ==
    /\ pc = "dl_requests"
    /\ \E o \in RequestsOutcomes(DestDirExists(dl.dest, dirs)) :
         /\ fs' = [fs EXCEPT ![dl.dest] = AfterRequests(o, @)]
         /\ dl' = [dl EXCEPT !.tried = Append(@, [s |-> "requests", ok |-> RequestsReturns(o)]),
                             !.done = TRUE, !.ret = RequestsReturns(o)]
    /\ acts' = acts \cup {"download"}
    /\ pc' = "dl_done"
    /\ UNCHANGED <<platform, onPath, dirs, extracted, cwd, mainVars, su, ew, gen,
                   launches, found_files, exitVars>>


(***************************************************************************)
(* Archive Extractor: extract_zip (lines 141-157).                         *)
(***************************************************************************)
\* what the archive at zip_path is: not a readable archive; not encrypted;
\* encrypted with the password supplied; encrypted with another password;
\* packed with a method zipfile does not support; holding a damaged member
ArchiveKinds == {"corrupt", "plain", "encrypted_match", "encrypted_other",
                 "unsupported", "bad_member"}

\* line 144: zipfile.ZipFile(zip_path, 'r') raises BadZipFile for a file that
\* is no archive
ZipFileOpens(kind) == kind # "corrupt"

\* zip_ref.extractall, with pwd or without: zipfile ignores a password given
\* for a member that is not encrypted, raises RuntimeError for a bad or a
\* missing password, NotImplementedError (a RuntimeError) for an unsupported
\* method, BadZipFile for a damaged member
extractall(kind, pwd) ==
    CASE kind = "plain" -> "ok"
      [] kind = "encrypted_match" -> IF pwd THEN "ok" ELSE "RuntimeError"
      [] kind = "encrypted_other" -> "RuntimeError"
      [] kind = "unsupported" -> "RuntimeError"
      [] kind = "bad_member" -> "BadZipFile"

\* line 148: what the handler inside the with block catches
NothingCaught(outcome) == FALSE
CaughtByRetryHandler(outcome) == outcome = "RuntimeError"

\* line 154: `except Exception` lets none of the outcomes above leave
\* extract_zip
Propagated(outcome) == "none"

\* extract_zip on an archive of `kind`, with or without a password: the value
\* returned, the extractall calls made with their outcomes, and the exception
\* that leaves the function
extract_zip(kind, password) ==
    IF ~ZipFileOpens(kind)
    THEN [ok |-> FALSE, attempts |-> <<>>, raised |-> Propagated("BadZipFile")]
    ELSE LET first == extractall(kind, password)
             second == extractall(kind, FALSE)
             tried == IF password /\ CaughtByRetryHandler(first)
                      THEN <<[pwd |-> TRUE, outcome |-> first],
                             [pwd |-> FALSE, outcome |-> second]>>
                      ELSE <<[pwd |-> password, outcome |-> first]>>
             last == tried[Len(tried)].outcome
         IN [ok |-> last = "ok",
             attempts |-> tried,
             raised |-> IF last = "ok" THEN "none" ELSE Propagated(last)]

\* find_executable (lines 159-164) on temp_extract
find_executable(dir) == IF dir = "exe" THEN "exe_path" ELSE None

(***************************************************************************)
(* Tool Provisioner: setup_tool (lines 192-234), entered from main.        *)
(***************************************************************************)
Exit(status, at) ==
    /\ pc' = "exited"
    /\ exitStatus' = status
    /\ exitAt' = at

\* main, lines 389-399: parse_args, the --GeneratorPath override, and the
\* call of setup_tool
MainStart ==
    /\ pc = "main"
    /\ TOOL_PATH' = IF args.generator_path # None THEN args.generator_path ELSE TOOL_PATH
    /\ su' = [NoSetup EXCEPT !.entered = TRUE, !.fs0 = fs, !.dirs0 = dirs,
                             !.extracted0 = extracted]
    /\ pc' = "su_wine"
    /\ UNCHANGED <<envVars, cwd, args, runs, tool_path, app_ids, debug, working_dir,
                   dl, ew, gen, histVars, exitVars>>

\* the draws of one ensure_wine call
WineResults(system, path) ==
    {ensure_wine(system, path, apt, upd, inst, installed) :
        apt \in BOOLEAN, upd \in BOOLEAN, inst \in BOOLEAN,
        installed \in SUBSET CandidateSet}

\* lines 194-196: the eager ensure_wine, skipped on Windows
SetupEnsureWine ==
    /\ pc = "su_wine"
    /\ IF Lower(platform) # "windows"
       THEN \E r \in WineResults(platform, onPath) :
              /\ ew' = [caller |-> "setup_tool", path0 |-> onPath, first |-> r.first,
                        steps |-> r.steps, ret |-> r.ret, raised |-> r.raised]
              /\ onPath' = r.path
              /\ acts' = acts \cup WineActs(r)
       ELSE UNCHANGED <<ew, onPath, acts>>
    /\ pc' = "su_check"
    /\ UNCHANGED <<platform, fs, dirs, extracted, cwd, mainVars, su, dl, gen,
                   launches, found_files, exitVars>>

\* line 199: os.path.exists(TOOL_PATH)
ToolNeverFound(files, path) == FALSE
ToolExists(files, path) == files[path] # "absent"

\* lines 198-213: return the tool that is there, or create TOOL_DIR and start
\* on the primary source
SetupCheck ==
    /\ pc = "su_check"
    /\ IF ToolExists(fs, TOOL_PATH)
       THEN /\ tool_path' = TOOL_PATH
            /\ pc' = "main_after_setup"
            /\ UNCHANGED <<dirs, dl, acts, su>>
       ELSE /\ dirs' = dirs \cup {TOOL_DIR}
            /\ acts' = acts \cup {"mkdir"}
            /\ StartDownload("primary", PRIMARY_URL, temp_zip)
            /\ UNCHANGED <<tool_path, su>>
    /\ ew' = NoWine
    /\ UNCHANGED <<platform, onPath, fs, extracted, cwd, TOOL_PATH, args, runs,
                   app_ids, debug, working_dir, gen, launches, found_files,
                   exitVars>>

\* lines 226-228: the fallback source, straight to TOOL_PATH
StartFallback == StartDownload("fallback", FALLBACK_URL, TOOL_PATH)

\* lines 213-215: after the primary download; makedirs(temp_extract) and
\* extract_zip with ZIP_PASSWORD
SetupExtract ==
    /\ pc = "dl_done"
    /\ dl.caller = "primary"
    /\ IF ~dl.ret
       THEN /\ su' = [su EXCEPT !.primary = "download_failed"]
            /\ StartFallback
            /\ UNCHANGED <<extracted, acts>>
       ELSE \E kind \in (IF fs[temp_zip] = "full" THEN ArchiveKinds ELSE {"corrupt"}),
               hasExe \in BOOLEAN :
              LET r == extract_zip(kind, TRUE)
              IN /\ acts' = acts \cup {"extract"}
                 /\ extracted' = IF r.ok /\ hasExe THEN "exe"
                                 ELSE IF extracted = "absent" THEN "noexe"
                                 ELSE extracted
                 /\ IF r.ok
                    THEN /\ pc' = "su_install"
                         /\ dl' = NoDownload
                         /\ UNCHANGED su
                    ELSE /\ su' = [su EXCEPT !.primary = "extract_failed"]
                         /\ StartFallback
    /\ UNCHANGED <<platform, onPath, fs, dirs, cwd, mainVars, ew, gen, launches,
                   found_files, exitVars>>

\* what shutil.copy2(exe_path, TOOL_PATH) can end as: it raises when the
\* directory of TOOL_PATH does not exist, and may fail while writing
CopyOutcomes(dirExists) ==
    IF dirExists THEN {"copied", "io_error"} ELSE {"no_such_directory"}

\* lines 216-225: find the executable, copy it into place, clean up
SetupInstall ==
    /\ pc = "su_install"
    /\ IF find_executable(extracted) = None
       THEN /\ su' = [su EXCEPT !.primary = "exe_not_found"]
            /\ StartFallback
            /\ UNCHANGED <<fs, extracted, acts, tool_path, exitVars>>
       ELSE \E o \in CopyOutcomes(DestDirExists(TOOL_PATH, dirs)) :
              /\ acts' = acts \cup {"copy"}
              /\ IF o = "copied"
                 THEN /\ fs' = [fs EXCEPT ![TOOL_PATH] = "full", ![temp_zip] = "absent"]
                      /\ extracted' = "absent"
                      /\ su' = [su EXCEPT !.primary = "installed"]
                      /\ tool_path' = TOOL_PATH
                      /\ pc' = "main_after_setup"
                      /\ UNCHANGED <<dl, exitVars>>
                 ELSE \* the exception leaves setup_tool and main
                      /\ fs' = [fs EXCEPT ![TOOL_PATH] =
                                   IF o = "io_error" THEN "partial" ELSE @]
                      /\ su' = [su EXCEPT !.primary = "copy_failed"]
                      /\ Exit(1, "exception")
                      /\ UNCHANGED <<extracted, dl, tool_path>>
    /\ UNCHANGED <<platform, onPath, dirs, cwd, TOOL_PATH, args, runs, app_ids,
                   debug, working_dir, ew, gen, launches, found_files>>

\* lines 228-234: after the fallback download
SetupFallback ==
    /\ pc = "dl_done"
    /\ dl.caller = "fallback"
    /\ IF dl.ret
       THEN /\ su' = [su EXCEPT !.fallback = "installed"]
            /\ tool_path' = TOOL_PATH
       ELSE /\ su' = [su EXCEPT !.fallback = "failed"]
            /\ tool_path' = None
    /\ dl' = NoDownload
    /\ pc' = "main_after_setup"
    /\ UNCHANGED <<envVars, cwd, TOOL_PATH, args, runs, app_ids, debug, working_dir,
                   ew, gen, histVars, exitVars>>


(***************************************************************************)
(* main after setup_tool (lines 400-446).                                  *)
(***************************************************************************)
\* line 404: any([args.app_id, args.working_dir, args.debug, args.generator_path])
has_cli(a) ==
    a.app_id # <<>> \/ a.working_dir # None \/ a.debug \/ a.generator_path # None

\* what is typed at the prompts of lines 425-432
DebugInputs == {"y", "yes", "", "n"}
WorkingDirInputs == {"", WORK_DIR}

\* lines 400-415 (command line) and 421-442 (prompts): leave when setup_tool
\* returned None or no identifier was parsed, else call generate_acf_files
MainAfterSetup ==
    /\ pc = "main_after_setup"
    /\ IF tool_path = None
       THEN /\ Exit(1, "line_402")
            /\ UNCHANGED <<app_ids, debug, working_dir>>
       ELSE \E debug_input \in DebugInputs, working_dir_input \in WorkingDirInputs,
               app_ids_input \in InputTexts :
              /\ debug' = IF has_cli(args) THEN args.debug
                          ELSE debug_input \in {"y", "yes", ""}
              /\ working_dir' =
                    IF has_cli(args)
                    THEN (IF args.working_dir # None THEN args.working_dir ELSE cwd)
                    ELSE (IF working_dir_input # "" THEN working_dir_input ELSE cwd)
              /\ app_ids' = IF has_cli(args) THEN validate_app_ids(args.app_id)
                            ELSE validate_app_ids(app_ids_input)
              /\ IF app_ids' = <<>>
                 THEN Exit(1, IF has_cli(args) THEN "line_412" ELSE "line_437")
                 ELSE /\ pc' = "gen_enter"
                      /\ UNCHANGED exitVars
    /\ su' = NoSetup
    /\ UNCHANGED <<envVars, cwd, TOOL_PATH, args, runs, tool_path, dl, ew, gen,
                   histVars>>

(***************************************************************************)
(* Invoker and Verifier: generate_acf_files (lines 274-378).               *)
(***************************************************************************)
\* lines 282-286
BuildCommandFlagLast(tool, dbg, ids) ==
    <<tool>> \o ids \o (IF dbg THEN <<"-d">> ELSE <<>>)
BuildCommand(tool, dbg, ids) ==
    <<tool>> \o (IF dbg THEN <<"-d">> ELSE <<>>) \o ids

\* lines 276-293: makedirs(working_dir) (the working directory exists from here
\* on; dirs holds the tool's directories only), the command, the saved directory
GenEnter ==
    /\ pc = "gen_enter"
    /\ gen' = [NoGen EXCEPT !.entered = TRUE,
                            !.cmd = BuildCommand(tool_path, debug, app_ids),
                            !.original_dir = cwd]
    /\ pc' = "gen_chdir"
    /\ UNCHANGED <<envVars, cwd, mainVars, su, dl, ew, histVars, exitVars>>

\* lines 294-295: os.chdir(working_dir), inside try/finally
GenChdir ==
    /\ pc = "gen_chdir"
    /\ \E ok \in BOOLEAN :
         IF ok
         THEN /\ cwd' = working_dir
              /\ pc' = "gen_wine"
              /\ UNCHANGED gen
         ELSE /\ gen' = [gen EXCEPT !.exc = "OSError"]
              /\ pc' = "gen_finally"
              /\ UNCHANGED cwd
    /\ UNCHANGED <<envVars, mainVars, su, dl, ew, histVars, exitVars>>

\* lines 300-314: the lazy ensure_wine, skipped on Windows, and the prefix
GenEnsureWine ==
    /\ pc = "gen_wine"
    /\ IF Lower(platform) # "windows"
       THEN \E r \in WineResults(platform, onPath) :
              /\ ew' = [caller |-> "generate_acf_files", path0 |-> onPath,
                        first |-> r.first, steps |-> r.steps, ret |-> r.ret,
                        raised |-> r.raised]
              /\ onPath' = r.path
              /\ acts' = acts \cup WineActs(r)
              /\ gen' = [gen EXCEPT !.wine_cmd = r.ret,
                                    !.cmd = IF r.ret # None THEN <<r.ret>> \o @ ELSE @]
       ELSE UNCHANGED <<ew, onPath, acts, gen>>
    /\ pc' = "gen_launch"
    /\ UNCHANGED <<platform, fs, dirs, extracted, cwd, mainVars, su, dl, launches,
                   found_files, exitVars>>

\* what subprocess.run(cmd, timeout=600) can end as: an exit code, or one of
\* the exceptions the handlers of lines 327-354 tell apart ("ExecFormatError":
\* an OSError whose message holds 'format error')
LaunchOutcomes ==
    {"rc_0", "rc_nonzero", "TimeoutExpired", "FileNotFoundError",
     "ExecFormatError", "OSError"}

\* a path with no leading '/' is resolved against the current directory
IsRelative(path) == path = DEFAULT_TOOL_PATH

\* the outcomes of launching `cmd` from directory `dir`: a relative tool path
\* launched directly is looked up under `dir`
OutcomesOf(cmd, dir) ==
    IF IsRelative(cmd[1]) /\ dir # START_DIR
    THEN {"FileNotFoundError"}
    ELSE LaunchOutcomes

\* lines 317-354: what the handlers do with the first launch's outcome
FirstLaunchHandling(o, wine_cmd, system) ==
    CASE o \in {"rc_0", "rc_nonzero"} -> "done"
      [] o = "FileNotFoundError" -> "done"
      [] o = "TimeoutExpired" -> "done"
      [] o = "ExecFormatError" ->
            IF wine_cmd = None /\ Lower(system) # "windows" THEN "retry" ELSE "raise"
      [] o = "OSError" -> "raise"

\* lines 316-354: the first launch
GenLaunch ==
    /\ pc = "gen_launch"
    /\ \E o \in OutcomesOf(gen.cmd, cwd) :
         /\ launches' = Append(launches, [cmd |-> gen.cmd, outcome |-> o])
         /\ LET h == FirstLaunchHandling(o, gen.wine_cmd, platform)
            IN /\ pc' = IF h = "retry" THEN "gen_retry" ELSE "gen_finally"
               /\ gen' = [gen EXCEPT !.exc = IF h = "raise" THEN "OSError" ELSE @]
    /\ acts' = acts \cup {"launch"}
    /\ ew' = NoWine
    /\ UNCHANGED <<envVars, cwd, mainVars, su, dl, found_files, exitVars>>

\* lines 334-350: one turn of the loop over ('wine', 'wine64'): a candidate on
\* the search path is launched; an exit code ends the loop (break), any
\* exception is reported and the loop goes on
GenRetry ==
    /\ pc = "gen_retry"
    /\ LET candidate == Candidates[gen.cand]
           last == gen.cand = Len(Candidates)
       IN IF candidate \in onPath
          THEN \E o \in OutcomesOf(<<candidate>> \o gen.cmd, cwd) :
                 /\ launches' = Append(launches, [cmd |-> <<candidate>> \o gen.cmd,
                                                  outcome |-> o])
                 /\ acts' = acts \cup {"launch"}
                 /\ pc' = IF o \in {"rc_0", "rc_nonzero"} \/ last
                          THEN "gen_finally" ELSE "gen_retry"
                 /\ gen' = [gen EXCEPT !.cand = IF o \in {"rc_0", "rc_nonzero"} \/ last
                                                THEN @ ELSE @ + 1]
          ELSE /\ pc' = IF last THEN "gen_finally" ELSE "gen_retry"
               /\ gen' = [gen EXCEPT !.cand = IF last THEN @ ELSE @ + 1]
               /\ UNCHANGED <<launches, acts>>
    /\ UNCHANGED <<envVars, cwd, mainVars, su, dl, ew, found_files, exitVars>>

\* line 357: the directory the finally clause changes to
KeepCurrentDir(current, original) == current
RestoredDir(current, original) == original

\* lines 356-357: the finally clause; a pending exception then leaves
\* generate_acf_files and main
GenFinally ==
    /\ pc = "gen_finally"
    /\ cwd' = RestoredDir(cwd, gen.original_dir)
    /\ IF gen.exc # "none"
       THEN Exit(1, "exception")
       ELSE /\ pc' = "gen_scan"
            /\ UNCHANGED exitVars
    /\ UNCHANGED <<envVars, mainVars, su, dl, ew, gen, histVars>>

\* line 362
OnlyManifestName(app_id) == {"appmanifest_" \o app_id \o ".acf"}
TargetNames(app_id) == {"appmanifest_" \o app_id \o ".acf", app_id \o ".acf"}

\* os.walk(working_dir): the directories in the order walked, each with its
\* file names in the order listed
FileLists(ids) ==
    {<<>>,
     <<"notes.txt", "appmanifest_" \o ids[1] \o ".acf">>}
Trees(wd, ids) ==
    {<<[root |-> wd, files |-> top], [root |-> wd \o "/a/b/c", files |-> deep]>> :
        top \in FileLists(ids), deep \in FileLists(ids)}

\* lines 363-371: the first matching file of the walk, as <<path>>, or <<>>
RECURSIVE FirstInFiles(_, _, _)
FirstInFiles(root, files, names) ==
    IF files = <<>> THEN <<>>
    ELSE IF Head(files) \in names THEN <<root \o "/" \o Head(files)>>
    ELSE FirstInFiles(root, Tail(files), names)

RECURSIVE FirstInWalk(_, _)
FirstInWalk(walk, names) ==
    IF walk = <<>> THEN <<>>
    ELSE IF FirstInFiles(Head(walk).root, Head(walk).files, names) # <<>>
         THEN FirstInFiles(Head(walk).root, Head(walk).files, names)
         ELSE FirstInWalk(Tail(walk), names)

\* lines 360-371: found_files
RECURSIVE ScanFound(_, _)
ScanFound(walk, ids) ==
    IF ids = <<>> THEN <<>>
    ELSE FirstInWalk(walk, TargetNames(Head(ids))) \o ScanFound(walk, Tail(ids))

\* lines 359-378: the verification scan
GenScan ==
    /\ pc = "gen_scan"
    /\ \E walk \in Trees(working_dir, app_ids) :
         /\ found_files' = ScanFound(walk, app_ids)
         /\ gen' = [gen EXCEPT !.scanned = TRUE, !.walk = walk]
    /\ acts' = acts \cup {"scan"}
    /\ pc' = "main_return"
    /\ UNCHANGED <<envVars, cwd, mainVars, su, dl, ew, launches, exitVars>>

\* lines 416-419 and 444-446: main returns
MainReturn ==
    /\ pc = "main_return"
    /\ Exit(0, "return")
    /\ UNCHANGED <<envVars, cwd, mainVars, su, dl, ew, gen, histVars>>

(***************************************************************************)
(* The environment, and the next run.                                      *)
(***************************************************************************)
\* another process installs or removes a compatibility-layer command while
\* the run is going on.  The search path is read at three places only, so a
\* change at any other time is the same as a change just before the next read
EnvPathChange ==
    /\ pc \in {"su_wine", "gen_wine", "gen_retry"}
    /\ Lower(platform) # "windows"
    /\ \E p \in SUBSET CandidateSet :
         /\ p # onPath
         /\ onPath' = p
    /\ UNCHANGED <<platform, fs, dirs, extracted, cwd, mainVars, pc, su, dl, ew, gen,
                   histVars, exitVars>>

\* the script is run again, with the same command line, on the disk the last
\* run left
NewRun ==
    /\ pc = "exited"
    /\ runs < MaxRuns
    /\ runs' = runs + 1
    /\ pc' = "main"
    /\ cwd' = START_DIR
    /\ TOOL_PATH' = DEFAULT_TOOL_PATH
    /\ tool_path' = Unset
    /\ app_ids' = <<>>
    /\ debug' = FALSE
    /\ working_dir' = None
    /\ su' = NoSetup
    /\ dl' = NoDownload
    /\ ew' = NoWine
    /\ gen' = NoGen
    /\ launches' = <<>>
    /\ found_files' = <<>>
    /\ acts' = {}
    /\ exitStatus' = NoExit
    /\ exitAt' = None
    /\ UNCHANGED <<envVars, args>>

Next ==
    \/ MainStart
    \/ SetupEnsureWine
    \/ SetupCheck
    \/ DlWget
    \/ DlCurl
    \/ DlRequests
    \/ SetupExtract
    \/ SetupInstall
    \/ SetupFallback
    \/ MainAfterSetup
    \/ GenEnter
    \/ GenChdir
    \/ GenEnsureWine
    \/ GenLaunch
    \/ GenRetry
    \/ GenFinally
    \/ GenScan
    \/ MainReturn
    \/ EnvPathChange
    \/ NewRun

Spec == Init /\ [][Next]_vars


(***************************************************************************)
(* The functions called on their own, on inputs main() never gives them:   *)
(* one call per behaviour, the arguments drawn by the initial state.       *)
(***************************************************************************)
\* the sequences over S of length up to n
SeqsUpTo(S, n) == UNION {[1..k -> S] : k \in 0..n}

\* identifier sequences, with repeats; file names a directory may hold; the
\* walks of a working directory with files at the top and three levels down
IdPool == {"73", "5"}
IdSeqs == SeqsUpTo(IdPool, MaxIds) \ {<<>>}
FileNames == {"notes.txt", "appmanifest_73.acf", "73.acf", "5.acf"}
Walks(wd) ==
    {<<[root |-> wd, files |-> top], [root |-> wd \o "/a/b/c", files |-> deep]>> :
        top \in SeqsUpTo(FileNames, MaxFiles), deep \in SeqsUpTo(FileNames, MaxFiles)}

\* identifier texts: ASCII digits, a digit of another script, separators
TextChars == {"7", "0", "ARABIC-INDIC_3", ",", " ", "a"}
Texts == SeqsUpTo(TextChars, MaxLen)

FnCalls == {"call_scan", "call_validate_app_ids", "call_extract_zip",
            "call_ensure_wine"}

FnInit ==
    /\ pc \in FnCalls
    /\ platform \in (IF pc = "call_ensure_wine" THEN Platforms ELSE {"Linux"})
    /\ onPath \in (IF pc = "call_ensure_wine" THEN SUBSET CandidateSet ELSE {{}})
    /\ fs = [f \in Files |-> "absent"]
    /\ dirs = {}
    /\ extracted = "absent"
    /\ cwd = START_DIR
    /\ TOOL_PATH = DEFAULT_TOOL_PATH
    /\ args \in (IF pc = "call_validate_app_ids"
                 THEN {Args(None, FALSE, None, text) : text \in Texts}
                 ELSE {Args(None, FALSE, None, <<>>)})
    /\ runs = 1
    /\ tool_path = Unset
    /\ app_ids \in (IF pc = "call_scan" THEN IdSeqs ELSE {<<>>})
    /\ debug = FALSE
    /\ working_dir = (IF pc = "call_scan" THEN WORK_DIR ELSE None)
    /\ su \in (IF pc = "call_extract_zip"
               THEN {[NoSetup EXCEPT !.archive = kind, !.password = password] :
                        kind \in ArchiveKinds, password \in BOOLEAN}
               ELSE {NoSetup})
    /\ dl = NoDownload
    /\ ew = NoWine
    /\ gen \in (IF pc = "call_scan"
                THEN {[NoGen EXCEPT !.walk = w] : w \in Walks(WORK_DIR)}
                ELSE {NoGen})
    /\ launches = <<>>
    /\ found_files = <<>>
    /\ acts = {}
    /\ exitStatus = NoExit
    /\ exitAt = None

\* lines 359-371 on the walk and the identifiers drawn
CallScan ==
    /\ pc = "call_scan"
    /\ found_files' = ScanFound(gen.walk, app_ids)
    /\ pc' = "scan_returned"
    /\ UNCHANGED <<envVars, cwd, mainVars, su, dl, ew, gen, launches, acts, exitVars>>

\* lines 268-272 on the text drawn
CallValidate ==
    /\ pc = "call_validate_app_ids"
    /\ app_ids' = validate_app_ids(args.app_id)
    /\ pc' = "validate_returned"
    /\ UNCHANGED <<envVars, cwd, TOOL_PATH, args, runs, tool_path, debug, working_dir,
                   su, dl, ew, gen, histVars, exitVars>>

\* lines 141-157 on the archive drawn, with a password or without
CallExtract ==
    /\ pc = "call_extract_zip"
    /\ su' = [su EXCEPT !.extract = extract_zip(su.archive, su.password)]
    /\ pc' = "extract_returned"
    /\ UNCHANGED <<envVars, cwd, mainVars, dl, ew, gen, histVars, exitVars>>

\* lines 166-190 on the platform and the search path drawn
CallEnsureWine ==
    /\ pc = "call_ensure_wine"
    /\ \E r \in WineResults(platform, onPath) :
         /\ ew' = [caller |-> "alone", path0 |-> onPath, first |-> r.first,
                   steps |-> r.steps, ret |-> r.ret, raised |-> r.raised]
         /\ onPath' = r.path
    /\ pc' = "wine_returned"
    /\ UNCHANGED <<platform, fs, dirs, extracted, cwd, mainVars, su, dl, gen,
                   histVars, exitVars>>

FnNext ==
    \/ CallScan
    \/ CallValidate
    \/ CallExtract
    \/ CallEnsureWine

SpecFunctions == FnInit /\ [][FnNext]_vars


(***************************************************************************)
(* The claims.                                                             *)
(***************************************************************************)
\* what counts as provisioning, or as running the external tool
ProvisioningActs == {"pkg", "mkdir", "download", "extract", "copy"}

\* C1: a run whose identifier text normalizes to no identifier exits with a
\* nonzero status, and nothing was provisioned or launched before that exit.
C1_NothingBeforeEmptyIdsExit ==
    exitAt \in {"line_412", "line_437"} =>
        /\ exitStatus # 0
        /\ acts \cap (ProvisioningActs \cup {"launch"}) = {}

\* setup_tool is running, or has just returned to main, and found a file at
\* the configured tool path when it was entered
SetupOnExistingTool == su.entered /\ su.fs0[TOOL_PATH] # "absent"

\* C2, as stated: with a file at the tool path, setup_tool returns that path
\* and does nothing else at all (no package manager, no network, no download,
\* no extraction, no change on disk), on every platform and with or without a
\* compatibility layer.
C2_ExistingToolNoActivity ==
    SetupOnExistingTool =>
        /\ pc \in {"su_wine", "su_check", "main_after_setup"}
        /\ pc = "main_after_setup" => tool_path = TOOL_PATH
        /\ acts = {}
        /\ fs = su.fs0 /\ dirs = su.dirs0 /\ extracted = su.extracted0

\* C2, amended: with a file at the tool path, setup_tool returns that path and
\* downloads, extracts, copies and changes nothing on disk, on every call; the
\* one thing it may run is ensure_wine's package-manager install attempt,
\* and that only off Windows and only when the first look at the search path
\* found neither wine nor wine64.
C2_ExistingToolOnlyWineInstall ==
    SetupOnExistingTool =>
        /\ pc \in {"su_wine", "su_check", "main_after_setup"}
        /\ pc = "main_after_setup" => tool_path = TOOL_PATH
        /\ acts \subseteq {"pkg"}
        /\ fs = su.fs0 /\ dirs = su.dirs0 /\ extracted = su.extracted0
        /\ "pkg" \in acts => Lower(platform) # "windows"
        /\ (pc = "su_check" /\ "pkg" \in acts) => ew.first = None

\* C2's case: the second run of the script finds the tool in place, as the
\* first did, runs the package manager again and returns the path
C2_Witness ==
    /\ runs = 2
    /\ pc = "main_after_setup"
    /\ SetupOnExistingTool
    /\ su.fs0[TOOL_PATH] = "full"
    /\ "pkg" \in acts
    /\ tool_path = TOOL_PATH

\* download_file has just returned
DownloadReturned == pc = "dl_done"
Failed(strategy) == [s |-> strategy, ok |-> FALSE]

\* C3: when wget, curl and the built-in fetch all fail, download_file returns
\* failure and leaves no partial file at the destination.
C3_AllFailedNoPartialFile ==
    (DownloadReturned /\ dl.tried = <<Failed("wget"), Failed("curl"), Failed("requests")>>) =>
        /\ ~dl.ret
        /\ fs[dl.dest] # "partial"

\* C4: download_file returns true exactly when a file of nonzero size is at
\* the destination as it returns.
C4_TrueIffNonEmptyFile ==
    DownloadReturned => (dl.ret <=> fs[dl.dest] \in {"partial", "full"})

\* the place of a strategy in the fixed order
Rank(strategy) == CHOOSE k \in 1..Len(Strategies) : Strategies[k] = strategy

\* C5: within a download_file call the strategies are tried in the order wget,
\* curl, built-in fetch; a strategy is tried only after every earlier one was
\* unavailable or failed, and none is tried after one succeeded.
C5_FixedOrderStopAtSuccess ==
    \A i \in 1..Len(dl.tried) :
        /\ \A k \in 1..(Rank(dl.tried[i].s) - 1) :
              \/ Strategies[k] \in dl.unavailable
              \/ \E j \in 1..(i - 1) : dl.tried[j] = Failed(Strategies[k])
        /\ dl.tried[i].ok => i = Len(dl.tried) /\ dl.done /\ dl.ret

\* C5's case: wget failed, curl failed, and the built-in fetch succeeded
C5_Witness ==
    /\ DownloadReturned
    /\ dl.tried = <<Failed("wget"), Failed("curl"), [s |-> "requests", ok |-> TRUE]>>
    /\ dl.ret

\* setup_tool has ended: it returned to main, or an exception left it
SetupEnded ==
    /\ su.entered
    /\ \/ pc = "main_after_setup"
       \/ pc = "exited" /\ exitAt = "exception"
PrimaryFailures == {"download_failed", "extract_failed", "exe_not_found", "copy_failed"}

\* C6: with no file at the tool path, the fallback retrieval is attempted
\* whenever the primary path failed at any step, never after it succeeded,
\* and setup_tool returns none only when both have failed.
C6_FallbackAfterAnyPrimaryFailure ==
    (SetupEnded /\ su.fs0[TOOL_PATH] = "absent") =>
        /\ su.primary \in PrimaryFailures => su.fallback # "none"
        /\ su.primary = "installed" => su.fallback = "none"
        /\ tool_path = None => su.primary \in PrimaryFailures /\ su.fallback = "failed"

\* C7: whatever the invocation ended as, the verification scan is performed
\* after it.
C7_ScanAfterEveryOutcome ==
    (pc = "exited" /\ "launch" \in acts) => "scan" \in acts

\* C8: the tool is launched at most twice in a generate_acf_files call; the
\* second launch follows an exec-format error of a first launch made without
\* a layer, and prefixes one layer command; a timeout or a nonzero exit code
\* of the first launch is never followed by another launch.
C8_AtMostOneRetry ==
    /\ Len(launches) <= 2
    /\ Len(launches) >= 2 =>
          /\ launches[1].outcome = "ExecFormatError"
          /\ Head(launches[1].cmd) \notin CandidateSet
          /\ \E c \in CandidateSet : launches[2].cmd = <<c>> \o launches[1].cmd
    /\ (launches # <<>> /\ launches[1].outcome \in {"TimeoutExpired", "rc_nonzero"})
          => Len(launches) = 1

\* generate_acf_files has ended: it is past its finally clause
GenerateEnded == gen.entered /\ pc \in {"gen_scan", "main_return", "exited"}

\* C9: however generate_acf_files ends, the current directory is then the one
\* that was current when it saved it.
C9_WorkingDirectoryRestored ==
    GenerateEnded => cwd = gen.original_dir

\* C9's case: the call changed to another directory, launched the tool, and
\* an exception left it
C9_Witness ==
    /\ GenerateEnded
    /\ pc = "exited" /\ exitAt = "exception"
    /\ working_dir # gen.original_dir
    /\ launches # <<>>
    /\ cwd = gen.original_dir

\* C10: the exit status is 0 whenever setup_tool returned a path, an
\* identifier was parsed and the tool was invoked, whatever the invocation
\* ended as; it is nonzero when provisioning failed or no identifier was given.
C10_ExitStatus ==
    pc = "exited" =>
        /\ (tool_path \notin {Unset, None} /\ app_ids # <<>> /\ "launch" \in acts)
              => exitStatus = 0
        /\ (tool_path = None \/ exitAt \in {"line_412", "line_437"})
              => exitStatus # 0

\* the names a file generated for identifier `id` may bear
AcceptedNames(id) == {"appmanifest_" \o id \o ".acf", id \o ".acf"}
\* some directory of the walk holds a file generated for `id`
HasFile(walk, id) ==
    \E d \in 1..Len(walk) : \E f \in 1..Len(walk[d].files) :
        walk[d].files[f] \in AcceptedNames(id)
\* C11: the scan's records are, in identifier order, one per occurrence of an
\* identifier that has a file with one of its two accepted names somewhere in
\* the tree, each record the path of such a file; an identifier with no such
\* file has no record.
C11_OneRecordPerFoundIdentifier ==
    pc = "scan_returned" =>
        LET found == SelectSeq(app_ids, LAMBDA id : HasFile(gen.walk, id))
        IN /\ Len(found_files) = Len(found)
           /\ \A k \in 1..Len(found) :
                \E d \in 1..Len(gen.walk) : \E f \in 1..Len(gen.walk[d].files) :
                    /\ gen.walk[d].files[f] \in AcceptedNames(found[k])
                    /\ found_files[k] = gen.walk[d].root \o "/" \o gen.walk[d].files[f]

\* C11's case: a file for the first identifier three levels down, nothing for
\* the second, and the scan has returned the one record
C11_Witness ==
    /\ pc = "scan_returned"
    /\ app_ids = <<"73", "5">>
    /\ ~HasFile(gen.walk, "5")
    /\ gen.walk[1].files = <<>>
    /\ found_files = <<WORK_DIR \o "/a/b/c/appmanifest_73.acf">>

\* the ASCII equivalent of a decimal digit of any script; "" for any other
\* character
DigitOf(ch) ==
    IF ch \in {"0", "1", "2", "3", "4", "5", "6", "7", "8", "9"} THEN ch
    ELSE IF ch = "ARABIC-INDIC_3" THEN "3"
    ELSE IF ch = "DEVANAGARI_7" THEN "7"
    ELSE ""
\* the digits of the run that starts at position i, as ASCII
RECURSIVE RunText(_, _)
RunText(text, i) ==
    IF i > Len(text) \/ DigitOf(text[i]) = "" THEN ""
    ELSE DigitOf(text[i]) \o RunText(text, i + 1)
\* the maximal runs of decimal digits of a text, left to right
MaximalRuns(text) ==
    LET starts == SelectSeq([i \in 1..Len(text) |-> i],
                            LAMBDA i : /\ DigitOf(text[i]) # ""
                                       /\ (i = 1 \/ DigitOf(text[i - 1]) = ""))
    IN [k \in 1..Len(starts) |-> RunText(text, starts[k])]

\* C12: validate_app_ids returns the maximal runs of decimal digits of its
\* input, each digit as its ASCII equivalent, left to right, repeats kept;
\* no token is empty; a text of whitespace only, or the empty text, gives the
\* empty sequence.
C12_MaximalDigitRuns ==
    pc = "validate_returned" =>
        /\ app_ids = MaximalRuns(args.app_id)
        /\ \A k \in 1..Len(app_ids) : app_ids[k] # ""
        /\ (\A i \in 1..Len(args.app_id) : args.app_id[i] = " ") => app_ids = <<>>

\* C12's case: a text whose two digits, one of another script, are kept apart
\* by a separator, has been normalized to two tokens
C12_Witness ==
    /\ pc = "validate_returned"
    /\ args.app_id = <<"7", ",", "ARABIC-INDIC_3">>
    /\ app_ids = <<"7", "3">>

\* C13: every command line launched is, after at most one compatibility-layer
\* command name, the tool path, then "-d" exactly when debug is set, then the
\* identifiers in their order; on Windows there is no compatibility-layer
\* command name in front.
C13_CommandLineForm ==
    \A i \in 1..Len(launches) :
        LET cmd == launches[i].cmd
            prefixed == cmd[1] \in {"wine", "wine64"}
            rest == IF prefixed THEN Tail(cmd) ELSE cmd
        IN /\ rest # <<>>
           /\ rest[1] = tool_path
           /\ IF debug
              THEN /\ Len(rest) >= 2
                   /\ rest[2] = "-d"
                   /\ Tail(Tail(rest)) = app_ids
              ELSE Tail(rest) = app_ids
           /\ platform = "Windows" => ~prefixed

\* C13's case: with debug set and two identifiers, the first launch had no
\* compatibility layer in front and the retry had one
C13_Witness ==
    /\ Len(launches) = 2
    /\ debug
    /\ launches[1].cmd = <<tool_path, "-d", "73", "5">>
    /\ launches[2].cmd = <<"wine64", tool_path, "-d", "73", "5">>

\* C14: whenever setup_tool has returned a path, in the first run or a later
\* one, the file at that path is a whole copy of the executable, never a file
\* cut short or an empty one left by a failed attempt.
C14_ReturnedToolIsComplete ==
    tool_path \notin {Unset, None} => fs[tool_path] = "full"

\* C15: once setup_tool, having found no file at the configured tool path,
\* copies or downloads a file to that path, the directory that holds the path
\* exists, also for a --GeneratorPath outside the default tools directory.
C15_ToolDirectoryExistsBeforeInstall ==
    ("copy" \in acts \/ dl.caller = "fallback") => dirname(TOOL_PATH) \in dirs

\* C16: no exception leaves extract_zip; it returns true exactly when an
\* extraction attempt completed; given a password, a first attempt that ends
\* in a password error is followed by one more attempt, without the password,
\* and nothing else is; any other failure returns false; an archive that is
\* not encrypted is extracted also when a password is given.
C16_ExtractNeverRaisesOneRetry ==
    pc = "extract_returned" =>
        LET r == su.extract
            n == Len(r.attempts)
        IN /\ r.raised = "none"
           /\ r.ok <=> \E i \in 1..n : r.attempts[i].outcome = "ok"
           /\ n <= 2
           /\ n >= 1 => r.attempts[1].pwd = su.password
           /\ (su.password /\ n >= 1 /\ r.attempts[1].outcome = "RuntimeError")
                 => n = 2 /\ ~r.attempts[2].pwd
           /\ n = 2 => su.password /\ r.attempts[1].outcome = "RuntimeError"
           /\ su.archive \in {"corrupt", "bad_member"} => ~r.ok
           /\ (n = 2 /\ r.attempts[2].outcome # "ok") => ~r.ok
           /\ su.archive = "plain" => r.ok

\* C16's case: a password was given, the archive is encrypted with another
\* one, and the second attempt, made without it, failed as well
C16_Witness ==
    /\ pc = "extract_returned"
    /\ su.password
    /\ su.archive = "encrypted_other"
    /\ Len(su.extract.attempts) = 2
    /\ ~su.extract.ok

\* C17: on Windows ensure_wine returns none and neither looks at the search
\* path nor installs; elsewhere it runs the package manager only when neither
\* wine nor wine64 was found, the update before the install, lets no
\* installation error out, and returns wine if it is on the search path
\* afterwards, else wine64 if that is, else none.
C17_EnsureWine ==
    pc = "wine_returned" =>
        LET ran(step) == \E i \in 1..Len(ew.steps) : ew.steps[i] = step
        IN /\ ew.raised = "none"
           /\ platform = "Windows" =>
                 /\ ew.ret = None
                 /\ ew.steps = <<>>
                 /\ onPath = ew.path0
           /\ platform # "Windows" =>
                 /\ (ran("update") \/ ran("install")) => ew.path0 = {}
                 /\ ew.path0 # {} => onPath = ew.path0
                 /\ ran("install") => ran("update")
                 /\ \A i, j \in 1..Len(ew.steps) :
                        ew.steps[i] = "update" /\ ew.steps[j] = "install" => i < j
                 /\ ew.ret = (IF "wine" \in onPath THEN "wine"
                              ELSE IF "wine64" \in onPath THEN "wine64"
                              ELSE None)
                 /\ ew.ret = None <=> onPath = {}

\* C17's case: neither command was found, the update and the install ran,
\* and wine64, the only one found afterwards, was returned
C17_Witness ==
    /\ pc = "wine_returned"
    /\ platform = "Linux"
    /\ ew.path0 = {}
    /\ ew.steps = <<"which", "update", "install", "which">>
    /\ onPath = {"wine64"}
    /\ ew.ret = "wine64"

====
